---- MODULE Spec2Model ----
(***************************************************************************)
(* Open-addressing hash map of src/src/hashmap.rs (HashMap<i64, i64>, the  *)
(* instantiation its tests use).  The table is a boxed slice of            *)
(* Option<(K, V)> with linear probing; insert grows the slice before it    *)
(* places an entry.  Every public method is one atomic action.             *)
(***************************************************************************)
EXTENDS Integers, Sequences, FiniteSets

(***************************************************************************)
(* Bounds of the model.                                                    *)
(***************************************************************************)
\* number of keys of KeyPool the callers insert
NumKeys == 2
\* insert is not called once the size counter has reached MaxSize (more
\* than DEFAULT_CAPACITY, so that the counter could reach the first capacity;
\* the resize at size 14 happens on the way)
MaxSize == 21
\* the runs that only insert distinct keys use the keys 3 * i, i < GrowNum
\* (the 1000 of test_resizing_by_adding_many_items, and one more), and start
\* at a key 3 * n, n <= MaxStart
GrowNum == 1001
MaxStart == 1

(***************************************************************************)
(* Program constants.                                                      *)
(***************************************************************************)
DEFAULT_CAPACITY == 20
\* LOAD_FACTOR = 0.7 as the fraction LOAD_FACTOR_NUM / LOAD_FACTOR_DEN
LOAD_FACTOR_NUM == 7
LOAD_FACTOR_DEN == 10

(***************************************************************************)
(* Option<T>: None is the empty tuple, Some(x) the 1-tuple of x.           *)
(***************************************************************************)
None == <<>>
Some(x) == <<x>>
IsSome(o) == o # None
Unwrap(o) == o[1]

(***************************************************************************)
(* hash_key: DefaultHasher is SipHash-1-3 with the key (0, 0).  An i64 is  *)
(* hashed as its 8 little-endian bytes: one message word m = key, then the *)
(* final word b = 8 << 56 (the length byte).  A u64 is the tuple of its    *)
(* four 16-bit limbs, least significant first.                             *)
(***************************************************************************)
\* a (non-negative) i64 as u64
ToWord(n) == <<n % 65536, (n \div 65536) % 65536, 0, 0>>

\* bit i of a ^ b, in place
xor_bit(a, b, i) == (((a \div (2 ^ i)) + (b \div (2 ^ i))) % 2) * (2 ^ i)

\* a ^ b on 4-bit digits, shifted by sh bits
xor_digit(a, b, sh) ==
    xor_bit(a, b, sh) + xor_bit(a, b, sh + 1) + xor_bit(a, b, sh + 2) + xor_bit(a, b, sh + 3)

\* a ^ b on 16-bit limbs
Xor16(a, b) == xor_digit(a, b, 0) + xor_digit(a, b, 4) + xor_digit(a, b, 8) + xor_digit(a, b, 12)

\* a ^ b on u64
XorW(a, b) == <<Xor16(a[1], b[1]), Xor16(a[2], b[2]), Xor16(a[3], b[3]), Xor16(a[4], b[4])>>

\* the carry out of limb i (1..4) of a + b
carry(a, b, i) ==
    IF i = 1 THEN (a[1] + b[1]) \div 65536
    ELSE IF i = 2 THEN (a[2] + b[2] + ((a[1] + b[1]) \div 65536)) \div 65536
    ELSE (a[3] + b[3] + ((a[2] + b[2] + ((a[1] + b[1]) \div 65536)) \div 65536)) \div 65536

\* wrapping_add on u64
AddW(a, b) ==
    << (a[1] + b[1]) % 65536,
       (a[2] + b[2] + carry(a, b, 1)) % 65536,
       (a[3] + b[3] + carry(a, b, 2)) % 65536,
       (a[4] + b[4] + carry(a, b, 3)) % 65536 >>

\* rotate_left on u64, by r = 16 * q + s bits
Rotl(a, r) ==
    LET q == r \div 16
        s == r % 16
        limb(i) == a[((i - 1 - q) % 4) + 1]
        part(i) == ((limb(i) * (2 ^ s)) % 65536) + (limb(i - 1) \div (2 ^ (16 - s)))
    IN  <<part(1), part(2), part(3), part(4)>>

\* x += y; y = y.rotate_left(r); y ^= x, as <<x, y>>, given the sum
add_rot_xor_sum(sum, y, r) == <<sum, XorW(Rotl(y, r), sum)>>
add_rot_xor(x, y, r) == add_rot_xor_sum(AddW(x, y), y, r)

\* first half of a round, from p = <<v0, v1>> and q = <<v2, v3>> after
\* v0 += v1; v1 <<<= 13; v1 ^= v0 and v2 += v3; v3 <<<= 16; v3 ^= v2:
\* v0 <<<= 32
half_round_1(p, q) == <<Rotl(p[1], 32), p[2], q[1], q[2]>>

\* second half, from p = <<v0, v3>> and q = <<v2, v1>> after
\* v0 += v3; v3 <<<= 21; v3 ^= v0 and v2 += v1; v1 <<<= 17; v1 ^= v2:
\* v2 <<<= 32
half_round_2(p, q) == <<p[1], q[2], Rotl(q[1], 32), p[2]>>

\* the two halves of one SipRound on the state <<v0, v1, v2, v3>>
SipHalf1(v) == half_round_1(add_rot_xor(v[1], v[2], 13), add_rot_xor(v[3], v[4], 16))
SipHalf2(v) == half_round_2(add_rot_xor(v[1], v[4], 21), add_rot_xor(v[3], v[2], 17))

\* v0 ^= m on the state
xor_v0(v, m) == <<XorW(v[1], m), v[2], v[3], v[4]>>
\* v2 ^= m on the state
xor_v2(v, m) == <<v[1], v[2], XorW(v[3], m), v[4]>>
\* v3 ^= m on the state
xor_v3(v, m) == <<v[1], v[2], v[3], XorW(v[4], m)>>

\* v0 ^ v1 ^ v2 ^ v3
xor_all(v) == XorW(XorW(v[1], v[2]), XorW(v[3], v[4]))

\* "somepseudorandomlygeneratedbytes" xor the zero key
SipInit ==
    << <<25973, 28787, 28005, 29551>>,    \* 0x736f6d6570736575
       <<28525, 28260, 29281, 25711>>,    \* 0x646f72616e646f6d
       <<29281, 28261, 26469, 27769>>,    \* 0x6c7967656e657261
       <<25971, 31092, 25698, 29797>> >>  \* 0x7465646279746573

\* the final word of an 8-byte message: 8 << 56
SipLen8 == <<0, 0, 0, 2048>>

\* the one element of a singleton set
Only(S) == CHOOSE x \in S : TRUE

\* the u64 hash of an i64 key m, SipHash-1-3, each step computed from the
\* result of the one before:
\*   v3 ^= m; round; v0 ^= m;  v3 ^= b; round; v0 ^= b;
\*   v2 ^= 0xff; round; round; round;  v0 ^ v1 ^ v2 ^ v3
hash_key(key) ==
    Only({xor_all(v6) :
      v6 \in {SipHalf2(h5) : h5 \in {SipHalf1(v5) :
        v5 \in {SipHalf2(h4) : h4 \in {SipHalf1(v4) :
          v4 \in {SipHalf2(h3) : h3 \in {SipHalf1(xor_v2(v3, ToWord(255))) :
            v3 \in {xor_v0(v2, SipLen8) :
              v2 \in {SipHalf2(h1) : h1 \in {SipHalf1(xor_v3(v1, SipLen8)) :
                v1 \in {xor_v0(v0, ToWord(key)) :
                  v0 \in {SipHalf2(h0) : h0 \in {SipHalf1(xor_v3(SipInit, ToWord(key)))
                  }}}}}}}}}}}}})

\* (hash as usize) % len, for len <= 2^15
ModW(a, len) ==
    ((((((a[4] % len) * 65536 + a[3]) % len) * 65536 + a[2]) % len) * 65536 + a[1]) % len

(***************************************************************************)
(* Inputs.  The callers' keys are keys 3 * i, as in the tests.  insert is  *)
(* called with the first NumKeys keys of KeyPool: with DEFAULT_CAPACITY    *)
(* slots 63 and 99 both start at slot 19, where the probe wraps to slot 0  *)
(* (slot 39 of 40 after one resize); 9 starts at slot 8.  get,             *)
(* contains_key and remove are also called with the key 6, which starts at *)
(* slot 0 and is never inserted.  V is opaque to the code, so two values   *)
(* tell an old value from a new one.  GrowKeys are the first GrowNum keys  *)
(* of the tests' loops (3 * i for i in 0..), for the runs that only insert *)
(* distinct keys; 6 and 12 both start at slot 0 there.                     *)
(***************************************************************************)
KeyPool == <<63, 99, 9, 0, 3>>
Keys == {KeyPool[i] : i \in 1..NumKeys}
NeverInserted == {6}
LookupKeys == Keys \cup NeverInserted
GrowKeys == {3 * i : i \in 0..(GrowNum - 1)}
AllKeys == LookupKeys \cup GrowKeys
Values == {1, 2}

\* the value the tests' loops insert with the key 3 * i
TestValue(key) == (key \div 3) * 8 + 5

\* hash_key of every key of the model, computed once
HashOf == [k \in AllKeys |-> hash_key(k)]

\* let mut hashed_index = (hash as usize) % elements_len
start_index(key, elements_len) == ModW(HashOf[key], elements_len)

\* as next_index, but without hashed_index += 1
next_index_stuck(hashed_index, elements_len) == hashed_index % elements_len

\* hashed_index += 1; hashed_index %= elements_len
next_index(hashed_index, elements_len) == (hashed_index + 1) % elements_len

\* Option::take on one slot of the slice: the slot is left None
take(els, i) == [els EXCEPT ![i] = None]

\* a slice of n empty slots, indexed from 0
empty_slice(n) == [i \in 0..(n - 1) |-> None]

\* the result of one call: the table it leaves, what it returns, whether it
\* reached its panic!, and how many slots the probe advanced past
Outcome(els, sz, cap, ret, panicked, probes) ==
    [elements |-> els, size |-> sz, capacity |-> cap, ret |-> ret,
     panicked |-> panicked, probes |-> probes]

(***************************************************************************)
(* resize_underlying_table: the entries of the old slice, in slice order,  *)
(* are probed into a new slice of twice the capacity.                      *)
(***************************************************************************)
\* as rehash_next_index, but without hashed_index += 1
rehash_next_index_stuck(hashed_index, new_capacity) == hashed_index % new_capacity

\* hashed_index += 1; hashed_index %= new_capacity
rehash_next_index(hashed_index, new_capacity) == (hashed_index + 1) % new_capacity

\* while elements_vec[hashed_index].is_some() { advance }
RECURSIVE rehash_probe(_, _, _)
rehash_probe(elements_vec, hashed_index, new_capacity) ==
    IF IsSome(elements_vec[hashed_index])
    THEN rehash_probe(elements_vec, rehash_next_index(hashed_index, new_capacity),
                      new_capacity)
    ELSE hashed_index

\* the same loop with its steps counted: <<hashed_index, steps>> when it
\* ends.  The loop has no bound of its own; once it has advanced
\* new_capacity times it has seen every slot it will ever see, all of them
\* occupied, and never ends: steps = new_capacity stands for that.
RECURSIVE rehash_probe_steps(_, _, _, _)
rehash_probe_steps(elements_vec, hashed_index, new_capacity, steps) ==
    IF steps = new_capacity
    THEN <<hashed_index, steps>>
    ELSE IF IsSome(elements_vec[hashed_index])
    THEN rehash_probe_steps(elements_vec, rehash_next_index(hashed_index, new_capacity),
                            new_capacity, steps + 1)
    ELSE <<hashed_index, steps>>

\* the for loop of resize_underlying_table from slot i of the old slice on:
\* the most steps the while loop takes for one of the entries it moves
\* (new_capacity if it never ends for one of them)
RECURSIVE rehash_steps(_, _, _, _, _)
rehash_steps(els, i, cap, elements_vec, new_capacity) ==
    IF i = cap
    THEN 0
    ELSE IF ~IsSome(els[i])
    THEN rehash_steps(els, i + 1, cap, elements_vec, new_capacity)
    ELSE LET found == rehash_probe_steps(elements_vec,
                                         start_index(Unwrap(els[i])[1], new_capacity),
                                         new_capacity, 0)
             rest == rehash_steps(els, i + 1, cap,
                                  [elements_vec EXCEPT ![found[1]] = els[i]],
                                  new_capacity)
         IN  IF found[2] = new_capacity THEN new_capacity
             ELSE IF rest > found[2] THEN rest ELSE found[2]

\* as rehash_item, but the entry is written to its start slot without the
\* while loop
rehash_item_no_probe(els, i, elements_vec, new_capacity) ==
    IF IsSome(els[i])
    THEN [elements_vec EXCEPT ![start_index(Unwrap(els[i])[1], new_capacity)] = els[i]]
    ELSE elements_vec

\* item.take().map(|(key, value)| { probe; elements_vec[hashed_index] = Some(..) })
\* for the item of slot i: an empty slot does nothing
rehash_item(els, i, elements_vec, new_capacity) ==
    IF IsSome(els[i])
    THEN [elements_vec EXCEPT
            ![rehash_probe(elements_vec, start_index(Unwrap(els[i])[1], new_capacity),
                           new_capacity)] = els[i]]
    ELSE elements_vec

\* for item in self.elements.iter_mut(), over the slots lo..hi-1 in slice
\* order: the first half of the range, then the second half on its result
RECURSIVE rehash_range(_, _, _, _, _)
rehash_range(els, lo, hi, elements_vec, new_capacity) ==
    IF hi - lo = 1
    THEN rehash_item(els, lo, elements_vec, new_capacity)
    ELSE Only({rehash_range(els, (lo + hi) \div 2, hi, vec, new_capacity) :
               vec \in {rehash_range(els, lo, (lo + hi) \div 2, elements_vec,
                                     new_capacity)}})

\* as resize_underlying_table, but the new slice is one and a half times the
\* old one
resize_by_half(els, cap) ==
    <<rehash_range(els, 0, cap, empty_slice(cap + cap \div 2), cap + cap \div 2),
      cap + cap \div 2>>

\* returns <<elements, capacity>>
resize_underlying_table(els, cap) ==
    <<rehash_range(els, 0, cap, empty_slice(cap * 2), cap * 2), cap * 2>>

\* as needs_resize, but with LOAD_FACTOR on the wrong side of the comparison
needs_resize_wrong_side(sz, cap) == LOAD_FACTOR_NUM * (sz + 1) > LOAD_FACTOR_DEN * cap

\* as needs_resize, but with self.size for new_size
needs_resize_current_size(sz, cap) == LOAD_FACTOR_DEN * sz > LOAD_FACTOR_NUM * cap

\* as needs_resize, but with >= for >
needs_resize_early(sz, cap) == LOAD_FACTOR_DEN * (sz + 1) >= LOAD_FACTOR_NUM * cap

\* (new_size as f64) > (self.capacity as f64) * LOAD_FACTOR; on the capacities
\* 20 * 2^n the f64 product is exactly 14 * 2^n, so the comparison is the
\* integer one
needs_resize(sz, cap) == LOAD_FACTOR_DEN * (sz + 1) > LOAD_FACTOR_NUM * cap

\* returns <<elements, capacity>>
resize_if_needed(els, sz, cap) ==
    IF needs_resize(sz, cap) THEN resize_underlying_table(els, cap) ELSE <<els, cap>>

(***************************************************************************)
(* insert                                                                  *)
(***************************************************************************)
\* the while loop of insert; the match takes the slot it inspects
RECURSIVE insert_probe(_, _, _, _, _, _, _)
insert_probe(els, sz, cap, key, value, hashed_index, num_iterations) ==
    IF ~(num_iterations < cap)
    THEN Outcome(els, sz, cap, None, TRUE, num_iterations)
    ELSE LET slot == els[hashed_index]
             taken == take(els, hashed_index)
         IN  IF slot = None
             THEN Outcome([taken EXCEPT ![hashed_index] = Some(<<key, value>>)],
                          sz + 1, cap, None, FALSE, num_iterations)
             ELSE IF key = Unwrap(slot)[1]
             THEN Outcome([taken EXCEPT ![hashed_index] = Some(<<key, value>>)],
                          sz, cap, Some(Unwrap(slot)[2]), FALSE, num_iterations)
             ELSE insert_probe(taken, sz, cap, key, value,
                               next_index(hashed_index, cap), num_iterations + 1)

\* as insert, but without self.size += 1
insert_no_count(els, sz, cap, key, value) ==
    [insert_probe(resize_if_needed(els, sz, cap)[1], sz, resize_if_needed(els, sz, cap)[2],
                  key, value, start_index(key, resize_if_needed(els, sz, cap)[2]), 0)
        EXCEPT !.size = sz]

insert(els, sz, cap, key, value) ==
    LET grown == resize_if_needed(els, sz, cap)
    IN  insert_probe(grown[1], sz, grown[2], key, value, start_index(key, grown[2]), 0)

(***************************************************************************)
(* get, contains_key                                                       *)
(***************************************************************************)
RECURSIVE get_probe(_, _, _, _, _, _)
get_probe(els, sz, cap, key, hashed_index, num_iterations) ==
    IF ~(num_iterations < cap)
    THEN Outcome(els, sz, cap, None, TRUE, num_iterations)
    ELSE LET slot == els[hashed_index]
         IN  IF slot = None
             THEN Outcome(els, sz, cap, None, FALSE, num_iterations)
             ELSE IF key = Unwrap(slot)[1]
             THEN Outcome(els, sz, cap, Some(Unwrap(slot)[2]), FALSE, num_iterations)
             ELSE get_probe(els, sz, cap, key, next_index(hashed_index, cap),
                            num_iterations + 1)

\* as get, but any entry in the start slot is taken for the key's
get_any_key(els, sz, cap, key) ==
    IF IsSome(els[start_index(key, cap)])
    THEN Outcome(els, sz, cap, Some(Unwrap(els[start_index(key, cap)])[2]), FALSE, 0)
    ELSE Outcome(els, sz, cap, None, FALSE, 0)

get(els, sz, cap, key) == get_probe(els, sz, cap, key, start_index(key, cap), 0)

\* self.get(key).map(|_| true).unwrap_or(false)
contains_key(els, sz, cap, key) == IsSome(get(els, sz, cap, key).ret)

(***************************************************************************)
(* remove                                                                  *)
(***************************************************************************)
RECURSIVE remove_probe(_, _, _, _, _, _)
remove_probe(els, sz, cap, key, hashed_index, num_iterations) ==
    IF ~(num_iterations < cap)
    THEN Outcome(els, sz, cap, None, TRUE, num_iterations)
    ELSE LET slot == els[hashed_index]
         IN  IF slot = None
             THEN Outcome(els, sz, cap, None, FALSE, num_iterations)
             ELSE IF Unwrap(slot)[1] = key
             THEN Outcome(take(els, hashed_index), sz, cap, Some(Unwrap(slot)[2]),
                          FALSE, num_iterations)
             ELSE remove_probe(els, sz, cap, key, next_index(hashed_index, cap),
                               num_iterations + 1)

\* as remove, but every slot that holds the key is vacated
remove_every_slot(els, sz, cap, key) ==
    [remove_probe(els, sz, cap, key, start_index(key, cap), 0) EXCEPT
        !.elements = [i \in DOMAIN els |->
                        IF IsSome(els[i]) /\ Unwrap(els[i])[1] = key THEN None ELSE els[i]]]

\* as remove, but the slot vacated is the start slot of the key, not the slot
\* where the probe found it
remove_start_slot(els, sz, cap, key) ==
    [remove_probe(els, sz, cap, key, start_index(key, cap), 0) EXCEPT
        !.elements = IF IsSome(remove_probe(els, sz, cap, key, start_index(key, cap), 0).ret)
                     THEN take(els, start_index(key, cap)) ELSE els]

\* as remove, but the slot of the key is not vacated
remove_keeps_slot(els, sz, cap, key) ==
    [remove_probe(els, sz, cap, key, start_index(key, cap), 0) EXCEPT !.elements = els]

remove(els, sz, cap, key) == remove_probe(els, sz, cap, key, start_index(key, cap), 0)

(***************************************************************************)
(* The state: the three fields of HashMap, and the last call with its      *)
(* result.  inserted is the history of the runs that only insert: the     *)
(* pairs <<key, value>> of the last insert of every key inserted so far.   *)
(***************************************************************************)
VARIABLES elements, size, capacity, last, inserted

vars == <<elements, size, capacity, last, inserted>>

Call(op, key, val, out, found) ==
    [op |-> op, key |-> key, val |-> val, ret |-> out.ret, found |-> found,
     panicked |-> out.panicked, probes |-> out.probes]

\* HashMap::new()
Init ==
    /\ elements = empty_slice(DEFAULT_CAPACITY)
    /\ size = 0
    /\ capacity = DEFAULT_CAPACITY
    /\ last = [op |-> "new", key |-> 0, val |-> 0, ret |-> None, found |-> FALSE,
               panicked |-> FALSE, probes |-> 0]
    /\ inserted = {}

\* a panic! ends the program
Running == ~last.panicked

\* the fields after a call that may write them
Store(out) ==
    /\ elements' = out.elements
    /\ size' = out.size
    /\ capacity' = out.capacity

InsertCall(key, value) ==
    /\ Running
    /\ LET out == insert(elements, size, capacity, key, value)
       IN  Store(out) /\ last' = Call("insert", key, value, out, FALSE)

Insert(key, value) ==
    /\ size < MaxSize
    /\ InsertCall(key, value)
    /\ UNCHANGED inserted

Get(key) ==
    /\ Running
    /\ last' = Call("get", key, 0, get(elements, size, capacity, key), FALSE)
    /\ UNCHANGED <<elements, size, capacity, inserted>>

ContainsKey(key) ==
    /\ Running
    /\ LET out == get(elements, size, capacity, key)
       IN  last' = Call("contains_key", key, 0, [out EXCEPT !.ret = None],
                        contains_key(elements, size, capacity, key))
    /\ UNCHANGED <<elements, size, capacity, inserted>>

Remove(key) ==
    /\ Running
    /\ LET out == remove(elements, size, capacity, key)
       IN  Store(out) /\ last' = Call("remove", key, 0, out, FALSE)
    /\ UNCHANGED inserted

\* any calls of the public methods
Next ==
    \/ \E key \in Keys, value \in Values : Insert(key, value)
    \/ \E key \in LookupKeys : Get(key)
    \/ \E key \in LookupKeys : ContainsKey(key)
    \/ \E key \in LookupKeys : Remove(key)

Spec == Init /\ [][Next]_vars

\* the keys inserted so far, and the value last inserted for one of them
InsertedKeys == {p[1] : p \in inserted}
InsertedValue(key) == (CHOOSE p \in inserted : p[1] = key)[2]

\* insert with the history kept
InsertLogged(key, value) ==
    /\ InsertCall(key, value)
    /\ inserted' = {p \in inserted : p[1] # key} \cup {<<key, value>>}

\* runs that only insert distinct keys: the loop of the tests,
\* insert(3 * i, i * 8 + 5) for i = n, n + 1, ..., from any n <= MaxStart
NextGrow ==
    \E key \in GrowKeys :
        /\ IF inserted = {} THEN key <= 3 * MaxStart
           ELSE <<key - 3, TestValue(key - 3)>> \in inserted
        /\ key \notin InsertedKeys
        /\ InsertLogged(key, TestValue(key))

SpecGrow == Init /\ [][NextGrow]_vars

\* runs that only insert, a key any number of times
NextInserts ==
    \E key \in Keys, value \in Values : size < MaxSize /\ InsertLogged(key, value)

SpecInserts == Init /\ [][NextInserts]_vars

(***************************************************************************)
(* What the claims speak of.                                               *)
(***************************************************************************)
\* the occupied slots, and the slots that hold a key
Occupied(els) == {i \in DOMAIN els : IsSome(els[i])}
SlotsOf(els, key) == {i \in Occupied(els) : Unwrap(els[i])[1] = key}

\* the pairs (key, value) stored for a key
PairsOf(els, key) == {Unwrap(els[i]) : i \in SlotsOf(els, key)}

\* the pairs (key, value) stored in a slice
PairsIn(els) == {Unwrap(els[i]) : i \in Occupied(els)}

\* the number of slots that hold a pair
CountOf(els, pair) == Cardinality({i \in DOMAIN els : els[i] = Some(pair)})

\* the number of steps of the probe for a key from its start slot to slot j
ProbeDistance(key, cap, j) == (j - start_index(key, cap) + cap) % cap

\* the entry of slot j is reached by the probe for its key: no slot from the
\* key's start slot to j is empty
Chained(els, cap, j) ==
    \A t \in 0..((j - start_index(Unwrap(els[j])[1], cap) + cap) % cap) :
        IsSome(els[(start_index(Unwrap(els[j])[1], cap) + t) % cap])

\* after a remove that returned Some: the slot it vacated, and the slice as
\* it was before the call
Vacated == (start_index(last.key, capacity) + last.probes) % capacity
BeforeRemove == [elements EXCEPT ![Vacated] = Some(<<last.key, Unwrap(last.ret)>>)]

\* get and contains_key called in the current state
GetNow(key) == get(elements, size, capacity, key).ret
ContainsNow(key) == contains_key(elements, size, capacity, key)

\* the capacities 20 * 2^n the model can reach
Doublings == {DEFAULT_CAPACITY * (2 ^ n) : n \in 0..12}

(***************************************************************************)
(* C1  Round trip: right after insert(k, v) returns, get(k) returns        *)
(* Some(v) and contains_key(k) is true, also when the start slot of k held *)
(* another key and when the insert resized.                                *)
(***************************************************************************)
C1_RoundTrip ==
    last.op = "insert" =>
        /\ ~last.panicked
        /\ GetNow(last.key) = Some(last.val)
        /\ ContainsNow(last.key)

(***************************************************************************)
(* C2  Overwrite, in the runs that only insert: insert of a key not        *)
(* inserted before returns None and adds 1 to size; insert(k, v2) of a key *)
(* last inserted with v1 returns Some(v1), leaves size unchanged, and      *)
(* get(k) then returns Some(v2).                                           *)
(***************************************************************************)
C2_Overwrite ==
    [][IF last'.key \in InsertedKeys
       THEN /\ last'.ret = Some(InsertedValue(last'.key))
            /\ size' = size
            /\ get(elements', size', capacity', last'.key).ret = Some(last'.val)
       ELSE /\ last'.ret = None
            /\ size' = size + 1]_vars

(***************************************************************************)
(* C3  No entry is lost by later inserts: in the runs that only insert     *)
(* distinct keys, every key inserted so far is found by get, with the      *)
(* value it was inserted with, and by contains_key.                        *)
(***************************************************************************)
C3_NoEntryLost ==
    \A p \in inserted : GetNow(p[1]) = Some(p[2]) /\ ContainsNow(p[1])

(***************************************************************************)
(* C4  Remove then lookup: when remove(k) returns Some(v), v is what       *)
(* get(k) returned right before the call, and right after it get(k)        *)
(* returns None and contains_key(k) is false.                              *)
(***************************************************************************)
C4_RemoveThenLookup ==
    [][(last'.op = "remove" /\ IsSome(last'.ret)) =>
        /\ last'.ret = get(elements, size, capacity, last'.key).ret
        /\ get(elements', size', capacity', last'.key).ret = None
        /\ ~contains_key(elements', size', capacity', last'.key)]_vars

\* a remove returned a value while a second slot still holds the key
C4_Witness ==
    /\ last.op = "remove"
    /\ IsSome(last.ret)
    /\ SlotsOf(elements, last.key) # {}

(***************************************************************************)
(* C5  Remove and size: remove(k) that returns Some(v) takes 1 from size;  *)
(* remove(k) that returns None leaves size and all slots unchanged.        *)
(***************************************************************************)
C5_RemoveSize ==
    [][last'.op = "remove" =>
        IF IsSome(last'.ret)
        THEN size' = size - 1
        ELSE size' = size /\ elements' = elements]_vars

(***************************************************************************)
(* C6  size is the number of non-empty slots, in every reachable state.    *)
(***************************************************************************)
C6_SizeIsCount == size = Cardinality(Occupied(elements))

(***************************************************************************)
(* C7  No key occupies more than one slot, in every reachable state.       *)
(***************************************************************************)
C7_KeyUnique == \A key \in Keys : Cardinality(SlotsOf(elements, key)) <= 1

(***************************************************************************)
(* C8  size < capacity, in every reachable state.                          *)
(***************************************************************************)
C8_SizeBelowCapacity == size < capacity

\* size has passed the first capacity, in a table that has grown
C8_Witness ==
    /\ last.op = "insert"
    /\ size > DEFAULT_CAPACITY
    /\ capacity = 2 * DEFAULT_CAPACITY

(***************************************************************************)
(* C9  capacity is the length of the slot array, is greater than 0 and is  *)
(* DEFAULT_CAPACITY * 2^n, in every reachable state; no step lowers it.    *)
(***************************************************************************)
C9_Capacity ==
    /\ [](/\ DOMAIN elements = 0..(capacity - 1)
          /\ capacity > 0
          /\ capacity \in Doublings)
    /\ [][capacity' >= capacity]_vars

\* an insert has just doubled the capacity: it found the table at load 0.7
C9_Witness ==
    /\ last.op = "insert"
    /\ capacity = 2 * DEFAULT_CAPACITY
    /\ LOAD_FACTOR_DEN * (size - 1) = LOAD_FACTOR_NUM * DEFAULT_CAPACITY

(***************************************************************************)
(* C10  Growth schedule: after N distinct keys were inserted (and nothing  *)
(* removed), size = N and capacity is the least 20 * 2^j with              *)
(* 10 * N <= 7 * capacity; so N = 1000 gives capacity 2560, and N > 14 at  *)
(* least one doubling.                                                     *)
(***************************************************************************)
C10_GrowthSchedule ==
    LET N == Cardinality(inserted)
    IN  /\ size = N
        /\ capacity \in Doublings
        /\ LOAD_FACTOR_DEN * N <= LOAD_FACTOR_NUM * capacity
        /\ \A c \in Doublings : LOAD_FACTOR_DEN * N <= LOAD_FACTOR_NUM * c => capacity <= c
        /\ N > 14 => capacity > DEFAULT_CAPACITY
        /\ N = 1000 => capacity = 2560

\* the 1000 inserts of test_resizing_by_adding_many_items are done
C10_Witness ==
    /\ <<0, 5>> \in inserted
    /\ Cardinality(inserted) = 1000
    /\ size = 1000
    /\ capacity = 2560

(***************************************************************************)
(* C11  Absence: for a key that was never passed to insert, get returns    *)
(* None, contains_key returns false and remove returns None, and none of   *)
(* them reaches its panic!; in every reachable state, and for the call     *)
(* that led to it.                                                         *)
(***************************************************************************)
C11_Absence ==
    /\ \A k \in NeverInserted :
          /\ get(elements, size, capacity, k).ret = None
          /\ ~get(elements, size, capacity, k).panicked
          /\ ~contains_key(elements, size, capacity, k)
          /\ remove(elements, size, capacity, k).ret = None
          /\ ~remove(elements, size, capacity, k).panicked
    /\ (last.key \in NeverInserted /\ last.op \in {"get", "contains_key", "remove"}) =>
          last.ret = None /\ ~last.found /\ ~last.panicked

\* remove of the key never inserted probed past its start slot, which holds
\* another key
C11_Witness ==
    /\ last.op = "remove"
    /\ last.key \in NeverInserted
    /\ last.probes > 0

(***************************************************************************)
(* C12  Fatal path unreachable: no call of insert, get or remove, for a    *)
(* key stored or not, reaches its panic!; in every reachable state, for    *)
(* the call that led to it and for every call that can follow.             *)
(***************************************************************************)
C12_NoPanic ==
    /\ ~last.panicked
    /\ \A k \in LookupKeys :
          /\ ~get(elements, size, capacity, k).panicked
          /\ ~remove(elements, size, capacity, k).panicked
          /\ \A v \in Values : ~insert(elements, size, capacity, k, v).panicked

\* a lookup probed past an occupied slot in a table at load 0.7
C12_Witness ==
    /\ last.op = "get"
    /\ last.probes > 0
    /\ LOAD_FACTOR_DEN * size = LOAD_FACTOR_NUM * capacity

(***************************************************************************)
(* C13  Termination: the call that led to a state, and every call of       *)
(* insert, get and remove that can follow it, ends after at most capacity  *)
(* probe steps; and when the next insert resizes, the while loop of the    *)
(* rehash ends for every entry it moves (before new_capacity steps).       *)
(***************************************************************************)
C13_Termination ==
    /\ needs_resize(size, capacity) =>
          rehash_steps(elements, 0, capacity, empty_slice(capacity * 2), capacity * 2)
              < capacity * 2
    /\ last.probes <= capacity
    /\ \A k \in LookupKeys :
          /\ get(elements, size, capacity, k).probes <= capacity
          /\ remove(elements, size, capacity, k).probes <= capacity
          /\ \A v \in Values :
                insert(elements, size, capacity, k, v).probes
                    <= insert(elements, size, capacity, k, v).capacity

\* a call has probed past an occupied slot, and the table is about to be
\* resized with an entry for which the loop of the rehash has to advance
C13_Witness ==
    /\ last.probes > 0
    /\ needs_resize(size, capacity)
    /\ rehash_steps(elements, 0, capacity, empty_slice(capacity * 2), capacity * 2) > 0

(***************************************************************************)
(* C14  Insert frame: insert(k, v) does not modify the occupied slots it   *)
(* advances past.  For every key k2 # k, the pairs stored for k2 before    *)
(* the call are stored after it and get(k2) returns what it returned       *)
(* before; when the call does not resize, at most the one slot it writes   *)
(* differs.                                                                *)
(***************************************************************************)
C14_InsertFrame ==
    [][last'.op = "insert" =>
        /\ \A k2 \in Keys \ {last'.key} :
              /\ PairsOf(elements, k2) \subseteq PairsOf(elements', k2)
              /\ get(elements', size', capacity', k2).ret
                     = get(elements, size, capacity, k2).ret
        /\ capacity' = capacity =>
              Cardinality({i \in DOMAIN elements : elements'[i] # elements[i]}) <= 1]_vars

(***************************************************************************)
(* C15  Resize trigger: an insert, of a new key or of a stored one,        *)
(* doubles the capacity, once, if and only if 10 * (size + 1) >            *)
(* 7 * capacity for the size and capacity at its entry, and leaves it      *)
(* unchanged otherwise; get, contains_key and remove leave it unchanged.   *)
(***************************************************************************)
C15_ResizeTrigger ==
    [][IF last'.op = "insert"
       THEN capacity' = IF 10 * (size + 1) > 7 * capacity THEN 2 * capacity ELSE capacity
       ELSE capacity' = capacity]_vars

\* an insert of a stored key has doubled the capacity: it returned the old
\* value, and size is still what made it resize
C15_Witness ==
    /\ last.op = "insert"
    /\ IsSome(last.ret)
    /\ capacity = 2 * DEFAULT_CAPACITY
    /\ 10 * (size + 1) > 7 * DEFAULT_CAPACITY
    /\ 10 * size <= 7 * DEFAULT_CAPACITY

(***************************************************************************)
(* C16  Rehash preserves contents: when the next insert resizes, the       *)
(* resize gives a slice of twice the capacity that holds the pairs of the  *)
(* old slice, each as many times as the old slice does, and nothing else   *)
(* (counted pair by pair when some pair is in two slots of the old slice); *)
(* every entry of it is reached by the probe for its key without crossing  *)
(* an empty slot, so that get finds every stored key; size is changed by   *)
(* the insert only.                                                        *)
(***************************************************************************)
C16_RehashPreserves ==
    needs_resize(size, capacity) =>
        LET grown == resize_underlying_table(elements, capacity)
        IN  /\ grown[2] = 2 * capacity
            /\ DOMAIN grown[1] = 0..(grown[2] - 1)
            /\ Cardinality(Occupied(grown[1])) = Cardinality(Occupied(elements))
            /\ PairsIn(grown[1]) = PairsIn(elements)
            /\ \/ Cardinality(PairsIn(elements)) = Cardinality(Occupied(elements))
               \/ \A i \in Occupied(elements) :
                     CountOf(grown[1], Unwrap(elements[i]))
                         = CountOf(elements, Unwrap(elements[i]))
            /\ \A j \in Occupied(grown[1]) :
                  /\ Chained(grown[1], grown[2], j)
                  /\ IsSome(get(grown[1], size, grown[2], Unwrap(grown[1][j])[1]).ret)
            /\ \A k \in Keys, v \in Values :
                  insert(elements, size, capacity, k, v).size
                      = IF insert(elements, size, capacity, k, v).ret = None
                        THEN size + 1 ELSE size

\* an insert has just resized a table of at least 80 slots, and an entry of
\* the slice of twice as many slots sits behind its start slot
C16_Witness ==
    /\ last.op = "insert"
    /\ capacity >= 8 * DEFAULT_CAPACITY
    /\ 20 * (size - 1) = 7 * capacity
    /\ \E j \in Occupied(elements) :
          start_index(Unwrap(elements[j])[1], capacity) # j

(***************************************************************************)
(* C17  Remove frame: remove(k) leaves the capacity and the length of the  *)
(* slice unchanged.  When it returns Some, it has emptied one slot, the    *)
(* first from the start slot of k, in probe order, that held k, and every  *)
(* other slot is unchanged; when it returns None every slot is unchanged.  *)
(***************************************************************************)
C17_RemoveFrame ==
    [][last'.op = "remove" =>
        /\ capacity' = capacity
        /\ DOMAIN elements' = DOMAIN elements
        /\ IF IsSome(last'.ret)
           THEN \E j \in SlotsOf(elements, last'.key) :
                   /\ \A t \in 0..(ProbeDistance(last'.key, capacity, j) - 1) :
                         (start_index(last'.key, capacity) + t) % capacity
                             \notin SlotsOf(elements, last'.key)
                   /\ elements' = [elements EXCEPT ![j] = None]
           ELSE elements' = elements]_vars

\* remove has found its key behind a slot that holds another key, and that
\* slot is still occupied
C17_Witness ==
    /\ last.op = "remove"
    /\ IsSome(last.ret)
    /\ last.probes > 0
    /\ IsSome(elements[start_index(last.key, capacity)])

(***************************************************************************)
(* C18  Deletion hazard: when remove(k1) returns Some and a key k2 # k1    *)
(* that get found before the call is not found after it, k2 still occupies *)
(* a slot, contains_key(k2) is false, and the probe for k2 stops at the    *)
(* slot that the remove vacated.  The witness shows that this happens.     *)
(***************************************************************************)
C18_DeletionHazard ==
    [][(last'.op = "remove" /\ IsSome(last'.ret)) =>
        \A k2 \in Keys \ {last'.key} :
            (/\ IsSome(get(elements, size, capacity, k2).ret)
             /\ get(elements', size', capacity', k2).ret = None) =>
                /\ SlotsOf(elements', k2) # {}
                /\ ~contains_key(elements', size', capacity', k2)
                /\ \E stop \in {(start_index(k2, capacity)
                                   + get(elements', size', capacity', k2).probes)
                                  % capacity} :
                      /\ elements'[stop] = None
                      /\ IsSome(elements[stop])
                      /\ Unwrap(elements[stop])[1] = last'.key]_vars

\* remove(k1) has returned Some, and a key k2 that get found before the call
\* still occupies a slot but is not found by get and contains_key
C18_Witness ==
    /\ last.op = "remove"
    /\ IsSome(last.ret)
    /\ \E k2 \in Keys \ {last.key} :
          /\ IsSome(get(BeforeRemove, size, capacity, k2).ret)
          /\ SlotsOf(elements, k2) # {}
          /\ GetNow(k2) = None
          /\ ~ContainsNow(k2)

(***************************************************************************)
(* C19  The occupied slots are at most size many, so at least              *)
(* capacity - size slots are empty; in every reachable state.              *)
(***************************************************************************)
C19_OccupiedAtMostSize ==
    /\ Cardinality(Occupied(elements)) <= size
    /\ Cardinality(DOMAIN elements \ Occupied(elements)) >= capacity - size

\* an insert has filled an empty slot, and every entry counted by size is in
\* a slot
C19_Witness ==
    /\ last.op = "insert"
    /\ last.ret = None
    /\ size > 0
    /\ Cardinality(Occupied(elements)) = size

(***************************************************************************)
(* C20  Load bound: 10 * size <= 7 * capacity in every reachable state,    *)
(* and when the next insert resizes, one doubling is enough: the size      *)
(* after the insert is within the bound for twice the capacity.            *)
(***************************************************************************)
C20_LoadBound ==
    /\ 10 * size <= 7 * capacity
    /\ 10 * (size + 1) > 7 * capacity => 10 * (size + 1) <= 7 * (2 * capacity)
    /\ \A k \in Keys, v \in Values :
          10 * insert(elements, size, capacity, k, v).size
              <= 7 * insert(elements, size, capacity, k, v).capacity

\* an insert of a new key has brought the table to the bound
C20_Witness ==
    /\ last.op = "insert"
    /\ last.ret = None
    /\ 10 * size = 7 * capacity
====
